---- MODULE Spec2Model ----
(***************************************************************************)
(* A model of the dfa crate: DFABuilder::from (line-oriented parsing),     *)
(* DFABuilder::build (validation and freezing) and DFA::is_valid_string    *)
(* (simulation of the frozen automaton).                                   *)
(*                                                                         *)
(* A string is a sequence of characters, a character a one-character       *)
(* string.  Option<T> is a sequence of length at most one (<<>> is None,   *)
(* <<x>> is Some(x)).  A HashMap is a function, a Vec a sequence, a         *)
(* HashSet a set.                                                          *)
(***************************************************************************)
EXTENDS Integers, Sequences, FiniteSets, TLC

VARIABLES
    input,         \* the lines of the stream handed to DFABuilder::from
    pc,            \* position of the caller (main.rs) / of the running function
    lines,         \* from: the trimmed non-blank lines (lib.rs:118)
    idx,           \* from: position of the `lines` iterator (next line to take)
    builder,       \* Option<DFABuilder>: the builder under construction / returned
    from_result,   \* "pending", "Ok", or the DFABuilderError returned
    build_result,  \* "pending", "Some" or "None"
    dfa,           \* Option<DFA>: the automaton build returned
    s,             \* is_valid_string: the string being matched
    pos,           \* is_valid_string: index of the next character
    cur,           \* is_valid_string: current_state.0
    nlookups,      \* is_valid_string: transition_for calls made so far
    result,        \* is_valid_string: "pending", "true", "false" or "panic"
    calls,         \* the is_valid_string calls of the threads sharing the DFA
    prev           \* Option: what from returned for the stream before its edit

vars == <<input, pc, lines, idx, builder, from_result, build_result, dfa,
          s, pos, cur, nlookups, result, calls, prev>>

----------------------------------------------------------------------------
(* Bounds of the model *)

\* Longest input stream, in lines.
MaxLines == 3

\* Longest string handed to is_valid_string.
MaxStr == 2

\* Longest final-state list add_final_state is allowed to grow.
MaxFinals == 2

\* Longest input stream of the parsing specification, in lines, before its
\* edit.
MaxParseLines == 2

\* Longest string of the concurrent calls.
MaxCallStr == 2

\* Most calls one thread makes.
MaxCalls == 3

----------------------------------------------------------------------------
(* Characters and strings *)

Space == " "
Tab == "\t"

\* The characters of the model that have the White_Space property.
Whitespace == {Space, Tab}

Digits == <<"0", "1", "2", "3", "4", "5", "6", "7", "8", "9">>

IsDigit(c) == \E i \in 1..Len(Digits) : Digits[i] = c

DigitVal(c) == (CHOOSE i \in 1..Len(Digits) : Digits[i] = c) - 1

\* The number of bytes of a character in UTF-8 (str::len counts bytes).
Utf8Len(c) == IF c = "U+00E9" THEN 2 ELSE 1

RECURSIVE str_len(_)
str_len(str) == IF str = <<>> THEN 0 ELSE Utf8Len(Head(str)) + str_len(Tail(str))

RECURSIVE trim_start(_)
trim_start(str) ==
    IF str # <<>> /\ Head(str) \in Whitespace THEN trim_start(Tail(str)) ELSE str

RECURSIVE trim_end(_)
trim_end(str) ==
    IF str # <<>> /\ str[Len(str)] \in Whitespace
    THEN trim_end(SubSeq(str, 1, Len(str) - 1))
    ELSE str

\* A trim of the leading whitespace only.
trim_leading(str) == trim_start(str)

\* A line kept as it is (a trim that trims nothing).
trim_nothing(str) == str

\* str::trim
trim(str) == trim_end(trim_start(str))

\* str::split(' '): the pieces between single spaces, empty pieces included.
RECURSIVE split(_)
split(str) ==
    IF \E i \in 1..Len(str) : str[i] = Space
    THEN LET i == CHOOSE k \in 1..Len(str) :
                     str[k] = Space /\ \A j \in 1..(k - 1) : str[j] # Space
         IN  <<SubSeq(str, 1, i - 1)>> \o split(SubSeq(str, i + 1, Len(str)))
    ELSE <<str>>

\* The largest i32.
I32Max == 2147483647

\* The digits of an i32 accumulated left to right with checked arithmetic, on
\* the negative side for a negative number (as core::num does): None on overflow.
RECURSIVE digits_value(_, _, _)
digits_value(str, acc, negative) ==
    IF str = <<>> THEN <<acc>>
    ELSE LET d == DigitVal(Head(str))
         IN  IF negative
             THEN LET bound == IF d = 0 THEN I32Max \div 10 ELSE (I32Max - (d - 1)) \div 10
                  IN  IF acc < 0 - bound THEN <<>>
                      ELSE digits_value(Tail(str), 10 * acc - d, negative)
             ELSE IF acc > (I32Max - d) \div 10 THEN <<>>
                  ELSE digits_value(Tail(str), 10 * acc + d, negative)

\* str::parse::<i32>: an optional sign, then one or more digits, within i32.
parse_i32(tok) ==
    LET signed == tok # <<>> /\ Head(tok) \in {"+", "-"}
        body   == IF signed THEN Tail(tok) ELSE tok
    IN  IF body = <<>> \/ \E i \in 1..Len(body) : ~IsDigit(body[i])
        THEN <<>>
        ELSE digits_value(body, 0, signed /\ Head(tok) = "-")

----------------------------------------------------------------------------
(* state.rs: State, a map from symbol to target state id *)

\* HashMap::new()
EmptyMap == [k \in {} |-> 0]

\* State::new / State::default
State_new == EmptyMap

\* A map insert that keeps an entry already present.
add_transition_keep_first(state, w, new_state) ==
    IF w \in DOMAIN state THEN state ELSE (w :> new_state) @@ state

\* State::add_transition: HashMap::insert, the new value replaces an old one.
add_transition(state, w, new_state) == (w :> new_state) @@ state

\* A lookup that answers state 0 for a symbol the state has no transition for.
transition_for_default(state, w) == IF w \in DOMAIN state THEN <<state[w]>> ELSE <<0>>

\* State::transition_for: Option<&i32>
transition_for(state, w) == IF w \in DOMAIN state THEN <<state[w]>> ELSE <<>>

----------------------------------------------------------------------------
(* lib.rs: parse_line *)

Ok(v) == [ok |-> TRUE, val |-> <<v>>, err |-> ""]
Err(e) == [ok |-> FALSE, val |-> <<>>, err |-> e]

\* Vec::filter as used by parse_line: the pieces that are not empty after trim.
RECURSIVE non_blank(_)
non_blank(toks) ==
    IF toks = <<>> THEN <<>>
    ELSE IF trim(Head(toks)) = <<>> THEN non_blank(Tail(toks))
         ELSE <<Head(toks)>> \o non_blank(Tail(toks))

\* parse_line: Result<(i32, char, i32), DFABuilderError>.  The unwrap of
\* w.chars().next() panics on an empty symbol token.
parse_line(line) ==
    LET components == non_blank(split(line))
    IN  IF Len(components) # 3 THEN Err("MalformedLine")
        ELSE LET from_state == parse_i32(components[1])
                 w          == components[2]
                 to_state   == parse_i32(components[3])
             IN  IF from_state = <<>> THEN Err("ExptectedInt")
                 ELSE IF str_len(w) > 1 THEN Err("ExpectedChar")
                 ELSE IF to_state = <<>> THEN Err("ExptectedInt")
                 ELSE IF w = <<>> THEN Err("panic")
                 ELSE Ok(<<from_state[1], Head(w), to_state[1]>>)

----------------------------------------------------------------------------
(* lib.rs: DFABuilder *)

\* DFABuilder::default()
DFABuilder_default == [final_states |-> <<>>, states |-> EmptyMap, alphabet |-> {}]

\* DFABuilder::add_final_state
add_final_state(b, state_id) ==
    [b EXCEPT !.final_states = Append(@, state_id)]

\* A byte that is no UTF-8: BufRead::lines yields Err for the line holding it.
InvalidByte == "0xFF"

\* from, lines 118-119: read.lines().map(|r| r.unwrap()).  None is the panic
\* of the unwrap on a line that cannot be decoded.
lines_unwrap(raw) ==
    IF \E i \in 1..Len(raw) : \E k \in 1..Len(raw[i]) : raw[i][k] = InvalidByte
    THEN <<>>
    ELSE <<raw>>

\* from, lines 118-122: every line trimmed, the empty ones dropped.
RECURSIVE collect_lines(_)
collect_lines(raw) ==
    IF raw = <<>> THEN <<>>
    ELSE LET l == trim(Head(raw))
         IN  IF l = <<>> THEN collect_lines(Tail(raw))
             ELSE <<l>> \o collect_lines(Tail(raw))

\* A header loop that passes over a token that is no integer.
RECURSIVE header_loop_skip(_, _)
header_loop_skip(b, toks) ==
    IF toks = <<>> THEN Ok(b)
    ELSE LET final_state == parse_i32(Head(toks))
         IN  IF final_state # <<>>
             THEN header_loop_skip(add_final_state(b, final_state[1]), Tail(toks))
             ELSE header_loop_skip(b, Tail(toks))

\* A header loop that checks the pieces and records none.
RECURSIVE header_loop_unrecorded(_, _)
header_loop_unrecorded(b, toks) ==
    IF toks = <<>> THEN Ok(b)
    ELSE IF parse_i32(Head(toks)) # <<>>
         THEN header_loop_unrecorded(b, Tail(toks))
         ELSE Err("NonIntegralFinalState")

\* from, lines 136-144: the loop over the header's pieces.
RECURSIVE header_loop(_, _)
header_loop(b, toks) ==
    IF toks = <<>> THEN Ok(b)
    ELSE LET final_state == parse_i32(Head(toks))
         IN  IF final_state # <<>>
             THEN header_loop(add_final_state(b, final_state[1]), Tail(toks))
             ELSE Err("NonIntegralFinalState")

\* The entry-or-insert of lines 157-160.
entry_or_default(states, from_state) ==
    IF from_state \in DOMAIN states THEN states[from_state] ELSE State_new

\* A loop body that leaves the builder as it is when the line does not parse.
line_body_skip(b, line) ==
    LET parsed == parse_line(line)
    IN  IF ~parsed.ok THEN Ok(b)
        ELSE LET from_state == parsed.val[1][1]
                 w          == parsed.val[1][2]
                 to_state   == parsed.val[1][3]
                 state      == entry_or_default(b.states, from_state)
             IN  Ok([b EXCEPT
                       !.alphabet = @ \cup {w},
                       !.states = (from_state :> add_transition(state, w, to_state)) @@ @])

\* A loop body that forgets the alphabet (no insert of the symbol).
line_body_no_alphabet(b, line) ==
    LET parsed == parse_line(line)
    IN  IF ~parsed.ok THEN Err(parsed.err)
        ELSE LET from_state == parsed.val[1][1]
                 w          == parsed.val[1][2]
                 to_state   == parsed.val[1][3]
                 state      == entry_or_default(b.states, from_state)
             IN  Ok([b EXCEPT
                       !.states = (from_state :> add_transition(state, w, to_state)) @@ @])

\* from, lines 147-164: the body of the loop over the transition lines.
line_body(b, line) ==
    LET parsed == parse_line(line)
    IN  IF ~parsed.ok THEN Err(parsed.err)
        ELSE LET from_state == parsed.val[1][1]
                 w          == parsed.val[1][2]
                 to_state   == parsed.val[1][3]
                 state      == entry_or_default(b.states, from_state)
             IN  Ok([b EXCEPT
                       !.alphabet = @ \cup {w},
                       !.states = (from_state :> add_transition(state, w, to_state)) @@ @])

\* The orders a HashMap or HashSet may be iterated in: every arrangement of
\* its elements.
Orders(S) ==
    {f \in [1..Cardinality(S) -> S] : \A i, j \in 1..Cardinality(S) : i # j => f[i] # f[j]}

\* The inner loop without the check that the target exists.
RECURSIVE check_symbols_no_target(_, _, _)
check_symbols_no_target(states, state, alpha_order) ==
    IF alpha_order = <<>> THEN TRUE
    ELSE LET transition == transition_for(state, Head(alpha_order))
         IN  IF transition = <<>> THEN FALSE
             ELSE check_symbols_no_target(states, state, Tail(alpha_order))

\* build, lines 195-212: the loop over the alphabet for one state; FALSE is
\* the early `return None`.
RECURSIVE check_symbols(_, _, _)
check_symbols(states, state, alpha_order) ==
    IF alpha_order = <<>> THEN TRUE
    ELSE LET transition == transition_for(state, Head(alpha_order))
         IN  IF transition = <<>> THEN FALSE
             ELSE IF transition[1] \notin DOMAIN states THEN FALSE
             ELSE check_symbols(states, state, Tail(alpha_order))

\* A loop that returns after the first state it visits.
check_states_first_only(states, state_order, alpha_order) ==
    IF state_order = <<>> THEN TRUE
    ELSE check_symbols(states, states[Head(state_order)], alpha_order)

\* build, lines 194-213: the loop over the states.
RECURSIVE check_states(_, _, _)
check_states(states, state_order, alpha_order) ==
    IF state_order = <<>> THEN TRUE
    ELSE IF ~check_symbols(states, states[Head(state_order)], alpha_order) THEN FALSE
    ELSE check_states(states, Tail(state_order), alpha_order)

\* A build that also wants the state ids to be 0, 1, ..., n-1.
build_contiguous(b, state_order, alpha_order) ==
    IF 0 \notin DOMAIN b.states THEN <<>>
    ELSE IF Len(b.final_states) < 1 THEN <<>>
    ELSE IF DOMAIN b.states # 0..(Cardinality(DOMAIN b.states) - 1) THEN <<>>
    ELSE IF ~check_states(b.states, state_order, alpha_order) THEN <<>>
    ELSE <<[states |-> b.states, final_states |-> b.final_states]>>

\* A build that wants every final state declared.
build_finals_declared(b, state_order, alpha_order) ==
    IF 0 \notin DOMAIN b.states THEN <<>>
    ELSE IF Len(b.final_states) < 1 THEN <<>>
    ELSE IF \E i \in 1..Len(b.final_states) : b.final_states[i] \notin DOMAIN b.states
         THEN <<>>
    ELSE IF ~check_states(b.states, state_order, alpha_order) THEN <<>>
    ELSE <<[states |-> b.states, final_states |-> b.final_states]>>

\* A build without the check for the initial state.
build_no_initial(b, state_order, alpha_order) ==
    IF Len(b.final_states) < 1 THEN <<>>
    ELSE IF ~check_states(b.states, state_order, alpha_order) THEN <<>>
    ELSE <<[states |-> b.states, final_states |-> b.final_states]>>

\* DFABuilder::build: Option<DFA>, the maps visited in the orders given.
build(b, state_order, alpha_order) ==
    IF 0 \notin DOMAIN b.states THEN <<>>
    ELSE IF Len(b.final_states) < 1 THEN <<>>
    ELSE IF ~check_states(b.states, state_order, alpha_order) THEN <<>>
    ELSE <<[states |-> b.states, final_states |-> b.final_states]>>

----------------------------------------------------------------------------
(* lib.rs: DFA *)

\* Vec::contains
contains(vec, x) == \E i \in 1..Len(vec) : vec[i] = x

\* DFA::get_state, with the unwrap left to the caller: None is the panic.
get_state(d, state_id) ==
    IF state_id \in DOMAIN d.states THEN <<d.states[state_id]>> ELSE <<>>

Bool(b) == IF b THEN "true" ELSE "false"

\* A match that goes on from the state the previous match ended in.
start_state_resume(previous) == previous

\* is_valid_string, line 56: every match starts in state 0, whatever state
\* the previous one ended in.
start_state(previous) == 0

\* A current state that all calls keep in the slot of thread 1.
current_state_shared(cs, t) == cs[1].cur

\* is_valid_string, line 56: current_state is a local of the call.
current_state(cs, t) == cs[t].cur

\* An empty-string case that always accepts.
is_valid_empty_accept(d) == "true"

\* is_valid_string, lines 53-54: the empty string.
is_valid_empty(d) == Bool(contains(d.final_states, 0))

\* A final test against the initial state instead of the current one.
is_valid_end_initial(d, current) == Bool(contains(d.final_states, 0))

\* is_valid_string, line 67: the test after the last character.
is_valid_end(d, current) == Bool(contains(d.final_states, current))

\* is_valid_string, lines 59-64: one turn of the loop from state `current`
\* on character c.  "next" carries the new current state.
is_valid_step(d, current, c) ==
    LET next_state == transition_for(d.states[current], c)
    IN  IF next_state = <<>> THEN [kind |-> "false", to |-> current]
        ELSE IF get_state(d, next_state[1]) = <<>>
             THEN [kind |-> "panic", to |-> current]
             ELSE [kind |-> "next", to |-> next_state[1]]

----------------------------------------------------------------------------
(* The inputs *)

\* The lines an input stream is made of: blank lines, headers, transition
\* lines (well-formed, overwriting, dangling, with surrounding and repeated
\* whitespace, with state ids out of order) and malformed lines.
LinePool ==
    { <<>>,                                          \* ""
      <<" ", "\t">>,                                 \* " \t"
      <<"0">>,                                       \* "0"
      <<"1">>,                                       \* "1"
      <<"0", " ", "a", " ", "0">>,                   \* "0 a 0"
      <<"0", " ", "a", " ", "1">>,                   \* "0 a 1"
      <<"1", " ", "a", " ", "0">>,                   \* "1 a 0"
      <<"0", " ", "b", " ", "0">>,                   \* "0 b 0"
      <<"0", " ", "a", " ", "3">>,                   \* "0 a 3"
      <<"3", " ", "a", " ", "0">>,                   \* "3 a 0"
      <<"1", " ", "b", " ", "3">>,                   \* "1 b 3"
      <<"0", " ", "a">>,                             \* "0 a"
      <<"0", " ", "a", "b", " ", "1">>,              \* "0 ab 1"
      <<"x", " ", "a", " ", "1">>,                   \* "x a 1"
      <<" ", "1", " ", " ", "a", " ", "1", "\t">> }  \* " 1  a 1\t"

Inputs == UNION {[1..n -> LinePool] : n \in 0..MaxLines}

\* The characters of the strings matched; "c" is on no line of the pool.
QueryChars == {"a", "b", "c"}

Strings == UNION {[1..n -> QueryChars] : n \in 0..MaxStr}

\* The ids add_final_state is called with.
FinalIds == {0, 1}

----------------------------------------------------------------------------
(* The state machine *)

\* The threads that share one DFA.
Threads == {1, 2}

\* A thread that has made no call yet.
IdleCall ==
    [pc |-> "idle", s |-> <<>>, pos |-> 0, cur |-> 0, nlookups |-> 0,
     result |-> "pending", ncalls |-> 0]

\* The state before DFABuilder::from is called, the stream apart.
InitRest ==
    /\ pc = "start"
    /\ lines = <<>>
    /\ idx = 0
    /\ builder = <<>>
    /\ from_result = "pending"
    /\ build_result = "pending"
    /\ dfa = <<>>
    /\ s = <<>>
    /\ pos = 0
    /\ cur = 0
    /\ nlookups = 0
    /\ result = "pending"
    /\ calls = [t \in Threads |-> IdleCall]
    /\ prev = <<>>

Init ==
    /\ input \in Inputs
    /\ InitRest

\* DFABuilder::from, lines 117-144: collect the lines, fail on an empty
\* stream, read the header.
FromHeader ==
    /\ pc = "start"
    /\ LET decoded   == lines_unwrap(input)
           collected == IF decoded = <<>> THEN <<>> ELSE collect_lines(decoded[1])
       IN  /\ lines' = collected
           /\ IF decoded = <<>>
              THEN /\ from_result' = "panic"
                   /\ pc' = "panicked"
                   /\ idx' = 0
                   /\ builder' = <<>>
              ELSE IF Len(collected) = 0
              THEN /\ from_result' = "EmptyStream"
                   /\ pc' = "from_err"
                   /\ idx' = 0
                   /\ builder' = <<>>
              ELSE LET r == header_loop(DFABuilder_default, split(collected[1]))
                   IN  IF r.ok
                       THEN /\ builder' = r.val
                            /\ idx' = 2
                            /\ pc' = "lines"
                            /\ from_result' = "pending"
                       ELSE /\ builder' = <<>>
                            /\ idx' = 2
                            /\ pc' = "from_err"
                            /\ from_result' = r.err
    /\ UNCHANGED <<calls, prev>>
    /\ UNCHANGED <<input, build_result, dfa, s, pos, cur, nlookups, result>>

\* DFABuilder::from, lines 147-164: one turn of the loop over the lines.
FromLine ==
    /\ pc = "lines"
    /\ idx <= Len(lines)
    /\ LET r == line_body(builder[1], lines[idx])
       IN  IF r.ok
           THEN /\ builder' = r.val
                /\ pc' = "lines"
                /\ from_result' = "pending"
           ELSE /\ builder' = <<>>
                /\ pc' = "from_err"
                /\ from_result' = r.err
    /\ idx' = idx + 1
    /\ UNCHANGED <<calls, prev>>
    /\ UNCHANGED <<input, lines, build_result, dfa, s, pos, cur, nlookups, result>>

\* DFABuilder::from, line 166: the lines are exhausted.
FromOk ==
    /\ pc = "lines"
    /\ idx > Len(lines)
    /\ from_result' = "Ok"
    /\ pc' = "ready"
    /\ UNCHANGED <<calls, prev>>
    /\ UNCHANGED <<input, lines, idx, builder, build_result, dfa, s, pos, cur,
                   nlookups, result>>

\* DFABuilder::default(), a builder made without a stream.
NewDefault ==
    /\ pc = "start"
    /\ input = <<>>
    /\ builder' = <<DFABuilder_default>>
    /\ pc' = "ready"
    /\ UNCHANGED <<calls, prev>>
    /\ UNCHANGED <<input, lines, idx, from_result, build_result, dfa, s, pos, cur,
                   nlookups, result>>

\* DFABuilder::add_final_state on a builder the caller holds.
AddFinalState ==
    /\ pc = "ready"
    /\ Len(builder[1].final_states) < MaxFinals
    /\ \E state_id \in FinalIds : builder' = <<add_final_state(builder[1], state_id)>>
    /\ UNCHANGED <<calls, prev>>
    /\ UNCHANGED <<input, pc, lines, idx, from_result, build_result, dfa, s, pos,
                   cur, nlookups, result>>

\* DFABuilder::build; the builder is consumed (its last value stays visible).
Build ==
    /\ pc = "ready"
    /\ \E state_order \in Orders(DOMAIN builder[1].states),
          alpha_order \in Orders(builder[1].alphabet) :
          LET d == build(builder[1], state_order, alpha_order)
          IN  /\ dfa' = d
              /\ build_result' = IF d = <<>> THEN "None" ELSE "Some"
              /\ pc' = IF d = <<>> THEN "no_dfa" ELSE "built"
    /\ UNCHANGED <<calls, prev>>
    /\ UNCHANGED <<input, lines, idx, builder, from_result, s, pos, cur, nlookups,
                   result>>

\* DFA::is_valid_string, lines 51-56: the call, the empty-string case, the
\* lookup of state 0.
IsValidStart ==
    /\ pc \in {"built", "valid_done"}
    /\ \E str \in Strings :
          /\ s' = str
          /\ IF str = <<>>
             THEN /\ result' = is_valid_empty(dfa[1])
                  /\ pc' = "valid_done"
             ELSE IF get_state(dfa[1], start_state(cur)) = <<>>
                  THEN /\ result' = "panic"
                       /\ pc' = "valid_done"
                  ELSE /\ result' = "pending"
                       /\ pc' = "valid_loop"
    /\ pos' = 1
    /\ cur' = start_state(cur)
    /\ nlookups' = 0
    /\ UNCHANGED <<calls, prev>>
    /\ UNCHANGED <<input, lines, idx, builder, from_result, build_result, dfa>>

\* A loop that looks at the same character again (the iterator not advanced).
IsValidStep_no_advance ==
    /\ pc = "valid_loop"
    /\ pos <= Len(s)
    /\ LET r == is_valid_step(dfa[1], cur, s[pos])
       IN  /\ cur' = r.to
           /\ IF r.kind = "next"
              THEN /\ result' = "pending"
                   /\ pc' = "valid_loop"
              ELSE /\ result' = r.kind
                   /\ pc' = "valid_done"
    /\ pos' = pos
    /\ nlookups' = nlookups + 1
    /\ UNCHANGED <<calls, prev>>
    /\ UNCHANGED <<input, lines, idx, builder, from_result, build_result, dfa, s>>

\* DFA::is_valid_string, lines 58-65: one character.
IsValidStep ==
    /\ pc = "valid_loop"
    /\ pos <= Len(s)
    /\ LET r == is_valid_step(dfa[1], cur, s[pos])
       IN  /\ cur' = r.to
           /\ IF r.kind = "next"
              THEN /\ result' = "pending"
                   /\ pc' = "valid_loop"
              ELSE /\ result' = r.kind
                   /\ pc' = "valid_done"
    /\ pos' = pos + 1
    /\ nlookups' = nlookups + 1
    /\ UNCHANGED <<calls, prev>>
    /\ UNCHANGED <<input, lines, idx, builder, from_result, build_result, dfa, s>>

\* DFA::is_valid_string, line 67: the characters are exhausted.
IsValidEnd ==
    /\ pc = "valid_loop"
    /\ pos > Len(s)
    /\ result' = is_valid_end(dfa[1], cur)
    /\ pc' = "valid_done"
    /\ UNCHANGED <<calls, prev>>
    /\ UNCHANGED <<input, lines, idx, builder, from_result, build_result, dfa, s,
                   pos, cur, nlookups>>

Next ==
    \/ FromHeader
    \/ FromLine
    \/ FromOk
    \/ NewDefault
    \/ AddFinalState
    \/ Build
    \/ IsValidStart
    \/ IsValidStep
    \/ IsValidEnd

Spec == Init /\ [][Next]_vars

----------------------------------------------------------------------------
(* What the properties speak of *)

IsBlank(line) == \A k \in 1..Len(line) : line[k] \in Whitespace

\* A line without its leading and trailing whitespace.
Strip(line) ==
    IF IsBlank(line) THEN <<>>
    ELSE LET inked == {k \in 1..Len(line) : line[k] \notin Whitespace}
             first == CHOOSE k \in inked : \A m \in inked : k <= m
             last  == CHOOSE k \in inked : \A m \in inked : m <= k
         IN  SubSeq(line, first, last)

\* The maximal runs of non-whitespace characters of a line, in order.
RECURSIVE Words(_)
Words(line) ==
    IF IsBlank(line) THEN <<>>
    ELSE LET inked == {k \in 1..Len(line) : line[k] \notin Whitespace}
             first == CHOOSE k \in inked : \A m \in inked : k <= m
             stops == {k \in first..Len(line) : line[k] \in Whitespace}
             last  == IF stops = {} THEN Len(line)
                      ELSE (CHOOSE k \in stops : \A m \in stops : k <= m) - 1
         IN  <<SubSeq(line, first, last)>> \o Words(SubSeq(line, last + 1, Len(line)))

\* The non-blank lines of the input, stripped: the header, then the
\* transition lines.
RECURSIVE NonBlankLines(_)
NonBlankLines(raw) ==
    IF raw = <<>> THEN <<>>
    ELSE IF IsBlank(Head(raw)) THEN NonBlankLines(Tail(raw))
         ELSE <<Strip(Head(raw))>> \o NonBlankLines(Tail(raw))

\* The error of each line of `nb` taken alone ("" when it has none): the
\* first line as the header, the others as transition lines.
RECURSIVE TransitionErrors(_)
TransitionErrors(ls) ==
    IF ls = <<>> THEN <<>>
    ELSE LET r == parse_line(Head(ls))
         IN  <<IF r.ok THEN "" ELSE r.err>> \o TransitionErrors(Tail(ls))

LineErrors(nb) ==
    IF nb = <<>> THEN <<>>
    ELSE LET r == header_loop(DFABuilder_default, split(Head(nb)))
         IN  <<IF r.ok THEN "" ELSE r.err>> \o TransitionErrors(Tail(nb))

BadLines(errs) == {i \in 1..Len(errs) : errs[i] # ""}

FirstBad(errs) == CHOOSE i \in BadLines(errs) : \A j \in BadLines(errs) : i <= j

\* Header and transition lines are all well-formed.
WellFormed(errs) == Len(errs) >= 1 /\ BadLines(errs) = {}

\* The transition lines of a well-formed input (the lines after the header),
\* each a triple <<from-state, symbol, to-state>>.
RECURSIVE TriplesOf(_)
TriplesOf(ls) ==
    IF ls = <<>> THEN <<>>
    ELSE <<parse_line(Head(ls)).val[1]>> \o TriplesOf(Tail(ls))

\* The from-states of the transition lines.
FromIds(tr) == {tr[i][1] : i \in 1..Len(tr)}

\* The symbols of the transition lines.
Symbols(tr) == {tr[i][2] : i \in 1..Len(tr)}

SamePair(tr, i, j) == tr[i][1] = tr[j][1] /\ tr[i][2] = tr[j][2]

\* The last transition line that names the (from-state, symbol) pair of line i.
LastFor(tr, i) ==
    CHOOSE j \in 1..Len(tr) :
        /\ SamePair(tr, i, j)
        /\ \A k \in 1..Len(tr) : SamePair(tr, i, k) => k <= j

\* from has returned, and its caller holds the result.
FromDone == pc \in {"from_err", "ready"} /\ from_result # "pending"
FromOkDone == pc = "ready" /\ from_result = "Ok"
\* build has returned.
BuildDone == pc \in {"built", "no_dfa"}
\* is_valid_string has returned.
Queried == pc = "valid_done"

FinalSet(d) == {d.final_states[i] : i \in 1..Len(d.final_states)}

\* The four conditions of a frozen automaton with respect to an alphabet.
FourInvariants(states, final_states, alphabet) ==
    /\ 0 \in DOMAIN states
    /\ Len(final_states) >= 1
    /\ \A id \in DOMAIN states : \A w \in alphabet : w \in DOMAIN states[id]
    /\ \A id \in DOMAIN states : \A w \in DOMAIN states[id] :
          states[id][w] \in DOMAIN states

\* The alphabet inferred from the input: the symbols of its transition
\* lines (none for a builder made without a stream).
InferredAlphabet ==
    IF from_result = "Ok" THEN Symbols(TriplesOf(Tail(NonBlankLines(input)))) ELSE {}

\* The transition table simulated by hand from `state` on `str`.
RECURSIVE ManualRun(_, _, _)
ManualRun(d, state, str) ==
    IF str = <<>> THEN state \in FinalSet(d)
    ELSE IF state \notin DOMAIN d.states THEN FALSE
    ELSE IF Head(str) \notin DOMAIN d.states[state] THEN FALSE
    ELSE ManualRun(d, d.states[state][Head(str)], Tail(str))

----------------------------------------------------------------------------------------------------------------------------------------
(* Properties *)

\* C1: every automaton build returns has state 0, a non-empty final-state
\* list, a transition in every state for every symbol that appears on a
\* transition line of the input, and only transitions to declared states;
\* for a builder that fails one of the four, build returns None.
C1_BuildEstablishesInvariants ==
    BuildDone =>
        LET alphabet == InferredAlphabet
        IN  /\ build_result = "Some" =>
                  FourInvariants(dfa[1].states, dfa[1].final_states, alphabet)
            /\ ~FourInvariants(builder[1].states, builder[1].final_states, alphabet)
                  => build_result = "None"

\* C1 witness: an automaton of two states over a non-empty alphabet was built.
C1_Witness ==
    /\ BuildDone
    /\ build_result = "Some"
    /\ Cardinality(DOMAIN dfa[1].states) = 2
    /\ InferredAlphabet # {}

\* C2: the result of is_valid_string is the result of simulating the
\* transition table by hand from state 0.
C2_MatchesManualSimulation ==
    Queried => result = Bool(ManualRun(dfa[1], 0, s))

\* C2 witness: a non-empty string was accepted in a state other than 0.
C2_Witness ==
    /\ Queried
    /\ Len(s) >= 1
    /\ result = "true"
    /\ cur = 1

\* C3: every state is_valid_string looks up is a declared state; the unwrap
\* of get_state never fails.
C3_LookupsNeverFail ==
    /\ result # "panic"
    /\ pc \in {"valid_loop", "valid_done"} => cur \in DOMAIN dfa[1].states

\* C3 witness: a match took two transitions and ended in state 1.
C3_Witness ==
    /\ Queried
    /\ nlookups >= 2
    /\ cur = 1
    /\ result \in {"true", "false"}

\* Some transition line's target is the from-state of no transition line.
DanglingLine(tr) == \E i \in 1..Len(tr) : tr[i][3] \notin FromIds(tr)

\* The same, of a line no later line for the same pair replaces.
SurvivingDanglingLine(tr) ==
    \E i \in 1..Len(tr) : LastFor(tr, i) = i /\ tr[i][3] \notin FromIds(tr)

\* from returned Ok and, if build has returned too, build returned None.
ParsedThenNotBuilt ==
    /\ from_result = "Ok"
    /\ BuildDone => build_result = "None"

\* C4 as stated: a well-formed input with a transition line whose target is
\* the from-state of no transition line parses (Ok) and then fails to build.
C4_Original ==
    (FromDone \/ BuildDone) =>
        LET nb == NonBlankLines(input)
        IN  (from_result # "pending" /\ WellFormed(LineErrors(nb))
                /\ DanglingLine(TriplesOf(Tail(nb))))
                => ParsedThenNotBuilt

\* C4 amended: a well-formed input with a transition line that no later
\* line for the same (from-state, symbol) pair overwrites, and whose target
\* is the from-state of no transition line, parses (Ok) and then fails to
\* build.
C4_SurvivingDanglingFailsBuild ==
    (FromDone \/ BuildDone) =>
        LET nb == NonBlankLines(input)
        IN  (from_result # "pending" /\ WellFormed(LineErrors(nb))
                /\ SurvivingDanglingLine(TriplesOf(Tail(nb))))
                => ParsedThenNotBuilt

\* C4 witness: build failed on a parsed input whose only defect is a
\* dangling target.
C4_Witness ==
    /\ BuildDone
    /\ from_result = "Ok"
    /\ build_result = "None"
    /\ SurvivingDanglingLine(TriplesOf(Tail(NonBlankLines(input))))
    /\ 0 \in DOMAIN builder[1].states
    /\ \A id \in DOMAIN builder[1].states :
          \A w \in InferredAlphabet : w \in DOMAIN builder[1].states[id]

\* C5: on the empty string the result is the membership of state 0 in the
\* final-state set, and no transition is taken.
C5_EmptyString ==
    (Queried /\ s = <<>>) =>
        /\ result = Bool(0 \in FinalSet(dfa[1]))
        /\ nlookups = 0

\* C5 witness: the empty string was accepted by an automaton whose first
\* final state is not 0.
C5_Witness ==
    /\ Queried /\ s = <<>>
    /\ result = "true"
    /\ dfa[1].final_states[1] # 0

\* C6: a string with a character outside the inferred alphabet is rejected
\* (false, no panic).
C6_OutsideAlphabetRejected ==
    (Queried /\ \E k \in 1..Len(s) : s[k] \notin builder[1].alphabet)
        => result = "false"

\* C6 witness: over a two-symbol alphabet, a string whose first character
\* is in the alphabet and whose second is not was rejected.
C6_Witness ==
    /\ Queried
    /\ Cardinality(builder[1].alphabet) = 2
    /\ Len(s) = 2
    /\ s[1] \in builder[1].alphabet
    /\ s[2] \notin builder[1].alphabet
    /\ result = "false"

\* C7: from fails fast: with an erroneous line it returns the error of the
\* earliest one, takes no line after it, and returns no builder; it returns
\* Ok only when no line is erroneous.
C7_FailFast ==
    pc \in {"lines", "from_err", "ready"} =>
        LET errs == LineErrors(NonBlankLines(input))
        IN  /\ (from_result # "pending" /\ BadLines(errs) # {}) =>
                  /\ from_result = errs[FirstBad(errs)]
                  /\ idx = FirstBad(errs) + 1
                  /\ builder = <<>>
            /\ (from_result = "pending" /\ BadLines(errs) # {}) =>
                  idx <= FirstBad(errs)
            /\ from_result = "Ok" => BadLines(errs) = {}

\* C7 witness: the second and third lines are erroneous in different ways
\* and from returned the error of the second.
C7_Witness ==
    /\ FromDone
    /\ LET errs == LineErrors(NonBlankLines(input))
       IN  /\ BadLines(errs) = {2, 3}
           /\ errs[2] # errs[3]
           /\ from_result = errs[2]

\* C8: lines that name the same (from-state, symbol) pair do not make from
\* fail; the state maps the symbol to the target of the last such line, and
\* the automaton built follows it.
C8_LastWriteWins ==
    /\ FromDone =>
          LET nb == NonBlankLines(input)
              tr == TriplesOf(Tail(nb))
          IN  /\ WellFormed(LineErrors(nb)) => from_result = "Ok"
              /\ from_result = "Ok" =>
                    \A i \in 1..Len(tr) :
                       builder[1].states[tr[i][1]][tr[i][2]] = tr[LastFor(tr, i)][3]
    /\ (pc = "built" /\ from_result = "Ok") =>
          LET tr == TriplesOf(Tail(NonBlankLines(input)))
          IN  \A i \in 1..Len(tr) :
                 is_valid_step(dfa[1], tr[i][1], tr[i][2])
                     = [kind |-> "next", to |-> tr[LastFor(tr, i)][3]]

\* C8 witness: two lines gave the pair two different targets and the
\* automaton was built.
C8_Witness ==
    /\ pc = "built"
    /\ from_result = "Ok"
    /\ LET tr == TriplesOf(Tail(NonBlankLines(input)))
       IN  \E i, j \in 1..Len(tr) :
              i < j /\ SamePair(tr, i, j) /\ tr[i][3] # tr[j][3]

\* C9: from returns EmptyStream exactly when the input has no non-blank
\* line.
C9_EmptyStream ==
    FromDone =>
        (from_result = "EmptyStream"
            <=> \A i \in 1..Len(input) : IsBlank(input[i]))

\* C9 witness: EmptyStream on an input of several lines, one of them made
\* of whitespace.
C9_Witness ==
    /\ FromDone
    /\ from_result = "EmptyStream"
    /\ Len(input) >= 2
    /\ \E i \in 1..Len(input) : input[i] # <<>>

\* A token of the header (the first non-blank line) is no integer.
HeaderHasNonInteger(nb) ==
    /\ Len(nb) >= 1
    /\ LET tokens == Words(nb[1])
       IN  \E k \in 1..Len(tokens) : parse_i32(tokens[k]) = <<>>

\* C10: when a token of the header does not parse as an integer, from
\* returns NonIntegralFinalState, whatever the header looks like and whatever
\* follows it.
C10_NonIntegralFinalState ==
    (FromDone /\ HeaderHasNonInteger(NonBlankLines(input)))
        => from_result = "NonIntegralFinalState"

\* C10 witness: NonIntegralFinalState for a header with the shape of a
\* transition line, followed by a malformed line.
C10_Witness ==
    /\ FromDone
    /\ from_result = "NonIntegralFinalState"
    /\ LET nb == NonBlankLines(input)
       IN  /\ Len(nb) >= 2
           /\ parse_line(nb[1]).ok
           /\ ~parse_line(nb[2]).ok

\* C15: build returns an automaton for every builder that has state 0, a
\* non-empty final-state list, a transition in every state for every symbol
\* of its alphabet and only transitions to declared states, whether or not
\* the state ids are contiguous or ordered.
C15_WellFormedIsBuilt ==
    (BuildDone /\ FourInvariants(builder[1].states, builder[1].final_states,
                                  builder[1].alphabet))
        => /\ build_result = "Some"
           /\ dfa = <<[states |-> builder[1].states,
                       final_states |-> builder[1].final_states]>>

\* C15 witness: an automaton with the states 0 and 3 was built from a
\* stream that declares state 3 before state 0.
C15_Witness ==
    /\ BuildDone
    /\ from_result = "Ok"
    /\ build_result = "Some"
    /\ DOMAIN dfa[1].states = {0, 3}
    /\ TriplesOf(Tail(NonBlankLines(input)))[1][1] = 3

\* C18: matching and parsing are bounded by their input: a match of n
\* characters makes one lookup per character taken and at most n, from takes
\* the k lines one after the other, each at most once, and a running from
\* or match has what its next step needs (a builder, a declared state).
C18_BoundedWork ==
    /\ pc = "lines" =>
          /\ 2 <= idx /\ idx <= Len(lines) + 1
          /\ builder # <<>>
    /\ FromDone => (idx - 1 <= Len(lines) /\ Len(lines) <= Len(input))
    /\ pc = "valid_loop" =>
          /\ nlookups = pos - 1
          /\ 1 <= pos /\ pos <= Len(s) + 1
          /\ cur \in DOMAIN dfa[1].states
    /\ Queried => nlookups <= Len(s)

\* C18 witness: from took all three lines of its stream, and a match of two
\* characters was rejected after one lookup.
C18_Witness ==
    /\ from_result = "Ok"
    /\ Len(lines) = 3
    /\ idx = 4
    /\ Queried
    /\ Len(s) = 2
    /\ nlookups = 1
    /\ result = "false"

\* C20: the outcome of build (Some or None) is the same for every order in
\* which the states and the alphabet are visited.
C20_OrderIndependent ==
    BuildDone =>
        \A state_order \in Orders(DOMAIN builder[1].states),
           alpha_order \in Orders(builder[1].alphabet) :
           (build(builder[1], state_order, alpha_order) = <<>>)
               <=> (build_result = "None")

\* C20 witness: build failed on a builder in which one state lacks a
\* transition and another state has a transition to an undeclared state.
C20_Witness ==
    /\ BuildDone
    /\ build_result = "None"
    /\ LET b == builder[1]
       IN  \E id1, id2 \in DOMAIN b.states :
              /\ 0 \in DOMAIN b.states
              /\ Len(b.final_states) >= 1
              /\ id1 # id2
              /\ \E w \in b.alphabet : w \notin DOMAIN b.states[id1]
              /\ \E w \in DOMAIN b.states[id2] : b.states[id2][w] \notin DOMAIN b.states

----------------------------------------------------------------------------
(* Calls of is_valid_string by several threads that share one DFA, their    *)
(* steps interleaved.                                                       *)

\* Streams of complete automata: one that accepts the even runs of "a", one
\* that accepts every non-empty run of "a", one without final state 0 that
\* lacks nothing.
CallInputs ==
    { << <<"0">>, <<"0", " ", "a", " ", "1">>, <<"1", " ", "a", " ", "0">> >>,
      << <<"1">>, <<"0", " ", "a", " ", "1">>, <<"1", " ", "a", " ", "1">> >>,
      << <<"0", " ", "1">>, <<"0", " ", "a", " ", "0">> >> }

\* The characters of the strings the threads match; "c" is on no line.
CallChars == {"a", "c"}

CallStrings == UNION {[1..n -> CallChars] : n \in 0..MaxCallStr}

CallsInit ==
    /\ input \in CallInputs
    /\ InitRest

\* DFA::is_valid_string called by thread t, lines 51-56.
CallStart(t) ==
    /\ pc = "built"
    /\ calls[t].pc \in {"idle", "done"}
    /\ calls[t].ncalls < MaxCalls
    /\ \E str \in CallStrings :
          LET start == start_state(calls[t].cur)
              r == IF str = <<>> THEN is_valid_empty(dfa[1])
                   ELSE IF get_state(dfa[1], start) = <<>> THEN "panic"
                   ELSE "pending"
          IN  calls' = [calls EXCEPT ![t] =
                           [pc |-> IF r = "pending" THEN "loop" ELSE "done",
                            s |-> str, pos |-> 1, cur |-> start, nlookups |-> 0,
                            result |-> r, ncalls |-> calls[t].ncalls + 1]]
    /\ UNCHANGED <<input, pc, lines, idx, builder, from_result, build_result, dfa,
                   s, pos, cur, nlookups, result, prev>>

\* Lines 58-65 in thread t: one character.
CallStep(t) ==
    /\ pc = "built"
    /\ calls[t].pc = "loop"
    /\ calls[t].pos <= Len(calls[t].s)
    /\ LET c == calls[t]
           r == is_valid_step(dfa[1], current_state(calls, t), c.s[c.pos])
       IN  calls' = [calls EXCEPT ![t] =
                        [c EXCEPT !.cur = r.to,
                                  !.pos = c.pos + 1,
                                  !.nlookups = c.nlookups + 1,
                                  !.result = IF r.kind = "next" THEN "pending" ELSE r.kind,
                                  !.pc = IF r.kind = "next" THEN "loop" ELSE "done"]]
    /\ UNCHANGED <<input, pc, lines, idx, builder, from_result, build_result, dfa,
                   s, pos, cur, nlookups, result, prev>>

\* Line 67 in thread t: the characters are exhausted.
CallEnd(t) ==
    /\ pc = "built"
    /\ calls[t].pc = "loop"
    /\ calls[t].pos > Len(calls[t].s)
    /\ calls' = [calls EXCEPT ![t] =
                    [calls[t] EXCEPT !.result = is_valid_end(dfa[1], current_state(calls, t)),
                                     !.pc = "done"]]
    /\ UNCHANGED <<input, pc, lines, idx, builder, from_result, build_result, dfa,
                   s, pos, cur, nlookups, result, prev>>

CallsNext ==
    \/ FromHeader
    \/ FromLine
    \/ FromOk
    \/ Build
    \/ \E t \in Threads : CallStart(t)
    \/ \E t \in Threads : CallStep(t)
    \/ \E t \in Threads : CallEnd(t)

SpecCalls == CallsInit /\ [][CallsNext]_vars

\* C16: is_valid_string leaves the states and the final-state list as build
\* made them, and a call with a string returns what the first call with
\* that string returned, whatever calls were made in between.
C16_CallsLeaveAutomatonAlone ==
    pc = "built" =>
        /\ dfa = <<[states |-> builder[1].states,
                    final_states |-> builder[1].final_states]>>
        /\ \A t1, t2 \in Threads :
              (calls[t1].pc = "done" /\ calls[t2].pc = "done" /\ calls[t1].s = calls[t2].s)
                  => calls[t1].result = calls[t2].result

\* C16 witness: thread 1 holds the result of its first call, thread 2 the
\* result of its third, on the same non-empty string.
C16_Witness ==
    /\ pc = "built"
    /\ calls[1].pc = "done" /\ calls[1].ncalls = 1
    /\ calls[2].pc = "done" /\ calls[2].ncalls = 3
    /\ calls[1].s = <<"a">> /\ calls[2].s = <<"a">>
    /\ calls[1].result = "false" /\ calls[2].result = "false"
    /\ calls[2].cur = 1

\* C17: a call that runs interleaved with the calls of other threads
\* returns what the transition table gives for its string alone, and in the
\* loop it stands in a declared state.
C17_InterleavedCallsAsAlone ==
    pc = "built" =>
        \A t \in Threads :
            /\ calls[t].pc = "done" =>
                  calls[t].result = Bool(ManualRun(dfa[1], 0, calls[t].s))
            /\ calls[t].pc = "loop" => calls[t].cur \in DOMAIN dfa[1].states

\* C17 witness: thread 2 has returned true for "aa" while thread 1 is in
\* the middle of "aa", in another state than the one thread 2 ended in.
C17_Witness ==
    /\ pc = "built"
    /\ calls[1].pc = "loop" /\ calls[1].s = <<"a", "a">> /\ calls[1].pos = 2
    /\ calls[2].pc = "done" /\ calls[2].s = <<"a", "a">> /\ calls[2].result = "true"
    /\ calls[1].cur # calls[2].cur

----------------------------------------------------------------------------
(* Parsing alone: the stream is parsed, edited in a way that should not     *)
(* matter (a blank line more or less, whitespace around a line) and parsed  *)
(* again.                                                                   *)

\* Headers and transition lines with one space, several spaces and tabs
\* between their tokens, with too few and too many tokens, with tokens that
\* are no integer or no single character, blank lines, and a line that is
\* no UTF-8.
ParsePool ==
    { <<>>,                                          \* ""
      <<" ", "\t">>,                                 \* " \t"
      <<"0">>,                                       \* "0"
      <<"0", " ", "1">>,                             \* "0 1"
      <<"0", " ", " ", "1">>,                        \* "0  1"
      <<"0", "\t", "1">>,                            \* "0\t1"
      <<"0", " ", "a", " ", "0">>,                   \* "0 a 0"
      <<"0", " ", " ", " ", "a", " ", "0">>,         \* "0   a 0"
      <<"0", "\t", "a", "\t", "0">>,                 \* "0\ta\t0"
      <<"0", " ", "a">>,                             \* "0 a"
      <<"0", " ", "a", " ", "0", " ", "1">>,         \* "0 a 0 1"
      <<"x", " ", "a", "b">>,                        \* "x ab"
      <<"0", " ", "a", "b", " ", "1">>,              \* "0 ab 1"
      <<"x", " ", "a", " ", "1">>,                   \* "x a 1"
      <<"0", " ", "a", " ", "y">>,                   \* "0 a y"
      <<"x", " ", "a", "b", " ", "1">>,              \* "x ab 1"
      <<"0", " ", "a", "b", " ", "y">>,              \* "0 ab y"
      <<"0", " ", "U+00E9", " ", "0">>,              \* "0 é 0"
      <<InvalidByte>> }                              \* b"\xFF"

ParseInputs == UNION {[1..n -> ParsePool] : n \in 0..MaxParseLines}

\* The blank lines an edit inserts.
BlankLines == {<<>>, <<"\t">>}

InsertAt(raw, p, line) == SubSeq(raw, 1, p) \o <<line>> \o SubSeq(raw, p + 1, Len(raw))

RemoveAt(raw, i) == SubSeq(raw, 1, i - 1) \o SubSeq(raw, i + 1, Len(raw))

\* The streams that differ from `raw` by one blank line inserted or removed,
\* or by one whitespace character put before or after one line.
Edits(raw) ==
    {InsertAt(raw, p, line) : p \in 0..Len(raw), line \in BlankLines}
    \cup {RemoveAt(raw, i) : i \in {j \in 1..Len(raw) : IsBlank(raw[j])}}
    \cup {[raw EXCEPT ![i] = <<ws>> \o @] : i \in 1..Len(raw), ws \in Whitespace}
    \cup {[raw EXCEPT ![i] = @ \o <<ws>>] : i \in 1..Len(raw), ws \in Whitespace}

ParseInit ==
    /\ input \in ParseInputs
    /\ InitRest

\* from has returned or panicked.
FromEnded == pc \in {"from_err", "ready", "panicked"} /\ from_result # "pending"

\* The caller keeps what from returned and calls it again on the edited
\* stream.
EditStream ==
    /\ FromEnded
    /\ prev = <<>>
    /\ \E edited \in Edits(input) : input' = edited
    /\ prev' = <<[from_result |-> from_result, builder |-> builder]>>
    /\ pc' = "start"
    /\ lines' = <<>>
    /\ idx' = 0
    /\ builder' = <<>>
    /\ from_result' = "pending"
    /\ UNCHANGED <<build_result, dfa, s, pos, cur, nlookups, result, calls>>

ParseNext ==
    \/ FromHeader
    \/ FromLine
    \/ FromOk
    \/ EditStream

SpecParse == ParseInit /\ [][ParseNext]_vars

\* The header's tokens are all integers.
HeaderAllIntegers(nb) ==
    /\ Len(nb) >= 1
    /\ LET tokens == Words(nb[1])
       IN  \A k \in 1..Len(tokens) : parse_i32(tokens[k]) # <<>>

\* The integers a sequence of tokens stands for.
IntsOf(tokens) == [k \in 1..Len(tokens) |-> parse_i32(tokens[k])[1]]

\* C11 as stated: a header whose whitespace-separated tokens are all
\* integers is accepted, and the final-state list is the list of those
\* integers, however many whitespace characters separate them.
C11_Original ==
    pc \in {"lines", "from_err", "ready"} =>
        LET nb == NonBlankLines(input)
        IN  HeaderAllIntegers(nb) =>
               /\ from_result # "NonIntegralFinalState"
               /\ (pc = "lines" /\ idx = 2) =>
                     builder[1].final_states = IntsOf(Words(nb[1]))

\* from went past the header and has returned.
PastHeader ==
    /\ pc \in {"from_err", "ready"}
    /\ from_result \notin {"pending", "panic", "EmptyStream", "NonIntegralFinalState"}
    /\ idx >= 3

\* C12 as stated: a transition line is split on runs of whitespace; from
\* returns MalformedLine for it exactly when that gives other than 3 tokens,
\* whatever the tokens are.
C12_Original ==
    PastHeader =>
        LET nb == NonBlankLines(input)
        IN  /\ from_result # "Ok" =>
                  (from_result = "MalformedLine" <=> Len(Words(nb[idx - 1])) # 3)
            /\ \A j \in 2..(idx - 1) :
                  (j < idx - 1 \/ from_result = "Ok") => Len(Words(nb[j])) = 3

\* C13 as stated, of the last line from took, when spaces separate its three
\* tokens: with integers as tokens 1 and 3 the line is accepted if token 2
\* is one character and ExpectedChar is returned if it is longer; with one
\* character as token 2 and a token 1 or 3 that is no integer ExptectedInt
\* is returned.
C13_Original ==
    PastHeader =>
        LET line == NonBlankLines(input)[idx - 1]
            w    == Words(line)
        IN  ((\A k \in 1..Len(line) : line[k] # Tab) /\ Len(w) = 3) =>
               LET int1 == parse_i32(w[1])
                   int3 == parse_i32(w[3])
               IN  /\ (int1 # <<>> /\ int3 # <<>> /\ Len(w[2]) = 1) =>
                          /\ from_result = "Ok"
                          /\ builder[1].states[int1[1]][w[2][1]] = int3[1]
                   /\ (int1 # <<>> /\ int3 # <<>> /\ Len(w[2]) > 1) =>
                          from_result = "ExpectedChar"
                   /\ (Len(w[2]) = 1 /\ (int1 = <<>> \/ int3 = <<>>)) =>
                          from_result = "ExptectedInt"

\* C14 as stated: from ends by returning Ok or one of its five errors, build
\* by returning Some or None; nothing panics.
C14_Original ==
    /\ pc # "panicked"
    /\ from_result \in {"pending", "Ok", "EmptyStream", "NonIntegralFinalState",
                        "MalformedLine", "ExpectedChar", "ExptectedInt"}
    /\ build_result \in {"pending", "Some", "None"}

\* C19: a blank line inserted or removed anywhere, or whitespace put before
\* or after a line, leaves what from returns (the builder or the error)
\* unchanged.
C19_BlankLinesAndPaddingIgnored ==
    (FromEnded /\ prev # <<>>) =>
        /\ from_result = prev[1].from_result
        /\ builder = prev[1].builder

\* C19 witness: from returned Ok again for a stream with a blank line put
\* between its header and its transition line.
C19_Witness ==
    /\ FromEnded
    /\ prev # <<>>
    /\ from_result = "Ok"
    /\ Len(input) = 3
    /\ IsBlank(input[2])
    /\ Len(lines) = 2

\* C21: a builder from returned as Ok has a final state, and when build
\* returns None for it, state 0 is missing, or a state lacks a transition
\* for a symbol of the alphabet, or a transition leads to an undeclared
\* state.
C21_FromBuilderHasFinalState ==
    (from_result = "Ok" /\ builder # <<>>) =>
        LET b == builder[1]
        IN  /\ Len(b.final_states) >= 1
            /\ (BuildDone /\ build_result = "None") =>
                  \/ 0 \notin DOMAIN b.states
                  \/ \E id \in DOMAIN b.states : \E w \in b.alphabet :
                        w \notin DOMAIN b.states[id]
                  \/ \E id \in DOMAIN b.states : \E w \in DOMAIN b.states[id] :
                        b.states[id][w] \notin DOMAIN b.states

\* C21 witness: build returned None for a builder from returned with one
\* final state and state 0.
C21_Witness ==
    /\ BuildDone
    /\ from_result = "Ok"
    /\ build_result = "None"
    /\ Len(builder[1].final_states) = 1
    /\ 0 \in DOMAIN builder[1].states

\* C22: a final-state id that is no declared state does not make build
\* fail when the four conditions hold, and an automaton none of whose final
\* states is declared accepts no string, the empty one included.
C22_UndeclaredFinalsHarmless ==
    /\ BuildDone =>
          LET b == builder[1]
          IN  (/\ FourInvariants(b.states, b.final_states, b.alphabet)
               /\ \E i \in 1..Len(b.final_states) : b.final_states[i] \notin DOMAIN b.states)
                 => build_result = "Some"
    /\ (Queried /\ FinalSet(dfa[1]) \cap DOMAIN dfa[1].states = {}) => result = "false"

\* C22 witness: an automaton whose only final state is undeclared was built
\* and rejected a string after taking both its transitions.
C22_Witness ==
    /\ Queried
    /\ build_result = "Some"
    /\ FinalSet(dfa[1]) \cap DOMAIN dfa[1].states = {}
    /\ s = <<"a", "a">>
    /\ nlookups = 2
    /\ result = "false"

====
